---- MODULE Spec2Model ----
(***************************************************************************)
(* Model of the watch pipeline of realitycheck/watchmon                    *)
(* (src/app/watch.go): WatchService.Start, its cycle, fetch and dispatch   *)
(* goroutines, Source.pull and the staleness gate on latest.t.             *)
(***************************************************************************)
EXTENDS Integers, Sequences, FiniteSets, TLC

\* ---------------------------------------------------------------- bounds
NumSources == 2
NumMonitors == 2
MaxCycles == 2
MaxTime == 3

Sources == 1..NumSources
Monitors == 1..NumMonitors
Cycles == 1..MaxCycles

\* ------------------------------------------------------- program constants
\* refresh period handed to Start, in clock units
Refresh == 1
\* the zero time.Time, the initial value of latest.t; the clock starts after it
ZeroTime == 0
\* the saturated time.Duration returned by time.Since for the zero time
MaxDuration == 2147483647

NoErr == "nil"
ErrUndefinedCommand == "source: undefined command"
ExecErrs == {"exit status 1"}
ParseErrs == {"some parsing error"}
CtxErrs == {"context canceled", "context deadline exceeded"}

\* records values a parser can return: record id -> ordered rows
RecordsChoices ==
    { [r \in {"r1"} |-> <<"a", "b">>],
      [r \in {"r2"} |-> <<"a">>] }

\* results of Command.Execute and Parser.Parse (both test doubles and the
\* real ones return a value and an error)
ExecResults == [out : {"bytes"}, err : {NoErr} \cup ExecErrs]
ParseResults ==
    [res : RecordsChoices, err : {NoErr}]
        \cup [res : {[r \in {"r1"} |-> <<"a", "b">>]}, err : ParseErrs]

\* the label values of the rows above; a row's metric carries the row's label
\* and, as its value, the reading of the cycle the row was fetched in
Labels == {"a", "b"}
MetricOf(c, row) == [labels |-> row, value |-> c]

\* MonitorConfig.Value.SourceId / RecordId of monitor m
SourceIdOf(m) == ((m - 1) % NumSources) + 1
RecordIdOf(m) == IF m <= NumSources THEN "r1" ELSE "r2"

VARIABLES
    now,        \* the clock read by time.Now / time.Since
    ctxErr,     \* ctx.Err(): NoErr until the context is cancelled
    lpc,        \* position of the scheduling loop of Start
    ret,        \* value returned by Start
    timer,      \* instant at which the pending time.After(refresh) fires
    nticks,     \* number of ticks handled so far
    rcv,        \* cycle whose SourcesData the loop is handling (0: none)
    t,          \* the loop's local copy of latest.t
    mu,         \* latest.mu: << >> free, <<"loop">>, <<"dispatch", c>>
    latest,     \* latest.t
    command,    \* per source: is a Command attached
    cpc,        \* per cycle goroutine: position
    updated,    \* per cycle: the captured time.Now()
    data,       \* per cycle: the sync.Map, source id -> records
    wg,         \* per cycle: the WaitGroup counter
    fetch,      \* per cycle and source: position of the fetch goroutine
    dpc,        \* per cycle: position of the dispatch goroutine
    di,         \* per dispatch: index into ws.monitors
    dk,         \* per dispatch: row about to be written inside push (0: not in push)
    gauge,      \* per monitor: the GaugeVec, label values -> value (0: no entry)
    wlog,       \* history: per dispatch, the monitor of its latest push call and
                \* the metrics that call has written so far
    werr,       \* history: per dispatch, the <<monitor, row>> pairs whose
                \* Metric.Write returned an error
    pushed,     \* history: per cycle, the monitors push was called on with its rows
    lastPush,   \* history: per monitor, the cycle of the latest push call
    prevPush,   \* history: per monitor, the cycle of the push call before that
    gateLog,    \* history: the gate's decisions, in order
    succ,       \* history: per cycle, the sources whose pull returned no error
    lastPull,   \* history: per source, inputs and result of its latest pull
    calls,      \* history: per cycle and source, the calls of s.pull and of
                \* s.command.Execute made so far
    writer,     \* history: cycle whose dispatch wrote latest.t last (0: none)
    vin,        \* a call of a function looked at on its own: << >> or <<the
                \* call's receiver and arguments>>
    vout        \* << >> or <<what that call returned>>

vars == <<now, ctxErr, lpc, ret, timer, nticks, rcv, t, mu, latest, command,
          cpc, updated, data, wg, fetch, dpc, di, dk, gauge, wlog, werr, pushed, lastPush,
          prevPush, gateLog, succ, lastPull, calls, writer, vin, vout>>

loopVars == <<lpc, ret, timer, nticks, rcv, t>>
cycleVars == <<cpc, updated, data, wg, fetch>>
dispVars == <<dpc, di, dk, gauge, wlog, werr>>
histVars == <<pushed, lastPush, prevPush, gateLog, succ, lastPull, calls, writer>>
pureVars == <<vin, vout>>

\* pull without the s.command == nil test
pull_NoNilCheck(cmd, exec, parse) ==
    IF exec.err # NoErr
    THEN [records |-> << >>, err |-> exec.err, calls |-> <<"Execute">>]
    ELSE IF parse.err # NoErr
    THEN [records |-> << >>, err |-> parse.err, calls |-> <<"Execute", "Parse">>]
    ELSE [records |-> <<parse.res>>, err |-> NoErr, calls |-> <<"Execute", "Parse">>]

\* pull handing on what Parse returned together with its error
pull_KeepRecords(cmd, exec, parse) ==
    IF ~cmd
    THEN [records |-> << >>, err |-> ErrUndefinedCommand, calls |-> << >>]
    ELSE IF exec.err # NoErr
    THEN [records |-> << >>, err |-> exec.err, calls |-> <<"Execute">>]
    ELSE [records |-> <<parse.res>>, err |-> parse.err, calls |-> <<"Execute", "Parse">>]

\* ------------------------------------------------------------- Source.pull
pull(cmd, exec, parse) ==
    IF ~cmd
    THEN [records |-> << >>, err |-> ErrUndefinedCommand, calls |-> << >>]
    ELSE IF exec.err # NoErr
    THEN [records |-> << >>, err |-> exec.err, calls |-> <<"Execute">>]
    ELSE IF parse.err # NoErr
    THEN [records |-> << >>, err |-> parse.err, calls |-> <<"Execute", "Parse">>]
    ELSE [records |-> <<parse.res>>, err |-> NoErr, calls |-> <<"Execute", "Parse">>]

\* ------------------------------------------------------------- time.Since
\* the zero time taken for the present instant
Since_ZeroIsNow(tm, n) == IF tm = ZeroTime THEN 0 ELSE n - tm

Since(tm, n) == IF tm = ZeroTime THEN MaxDuration ELSE n - tm

\* the gate's test of line 158; n1 and n2 are the two successive clock reads
Stale(tm, upd, n1, n2) == Since(tm, n1) < Since(upd, n2)

\* ------------------------------------------------------------------- Init
InitStart ==
    /\ now = 1
    /\ ctxErr = NoErr
    /\ lpc = "select"
    /\ ret = NoErr
    /\ timer = 1 + Refresh
    /\ nticks = 0
    /\ rcv = 0
    /\ t = ZeroTime
    /\ mu = << >>
    /\ latest = ZeroTime
    /\ command \in [Sources -> BOOLEAN]
    /\ cpc = [c \in Cycles |-> "none"]
    /\ updated = [c \in Cycles |-> ZeroTime]
    /\ data = [c \in Cycles |-> << >>]
    /\ wg = [c \in Cycles |-> 0]
    /\ fetch = [c \in Cycles |-> [s \in Sources |-> "none"]]
    /\ dpc = [c \in Cycles |-> "none"]
    /\ di = [c \in Cycles |-> 0]
    /\ dk = [c \in Cycles |-> 0]
    /\ gauge = [m \in Monitors |-> [l \in Labels |-> 0]]
    /\ wlog = [c \in Cycles |-> [m |-> 0, w |-> << >>]]
    /\ werr = [c \in Cycles |-> {}]
    /\ pushed = [c \in Cycles |-> {}]
    /\ lastPush = [m \in Monitors |-> 0]
    /\ prevPush = [m \in Monitors |-> 0]
    /\ gateLog = << >>
    /\ succ = [c \in Cycles |-> {}]
    /\ lastPull = [s \in Sources |-> << >>]
    /\ calls = [c \in Cycles |-> [s \in Sources |-> [pull |-> 0, exec |-> 0]]]
    /\ writer = 0

\* Start is running and no call is looked at on its own
Init ==
    /\ InitStart
    /\ vin = << >>
    /\ vout = << >>

\* Start returning nil instead of ctx.Err()
Return_Nil ==
    /\ lpc = "select"
    /\ ctxErr # NoErr
    /\ lpc' = "returned"
    /\ ret' = NoErr
    /\ UNCHANGED <<now, ctxErr, timer, nticks, rcv, t, mu, latest, command, pureVars>>
    /\ UNCHANGED <<cycleVars, dispVars, histVars>>

\* ------------------------------------------------------ the scheduling loop
\* case <-ctx.Done(): return ctx.Err()
Return ==
    /\ lpc = "select"
    /\ ctxErr # NoErr
    /\ lpc' = "returned"
    /\ ret' = ctxErr
    /\ UNCHANGED <<now, ctxErr, timer, nticks, rcv, t, mu, latest, command, pureVars>>
    /\ UNCHANGED <<cycleVars, dispVars, histVars>>

\* a tick on which the go statement is executed twice
Tick_TwoCycles ==
    /\ lpc = "select"
    /\ now >= timer
    /\ nticks + 1 < MaxCycles
    /\ nticks' = nticks + 1
    /\ cpc' = [cpc EXCEPT ![nticks + 1] = "start", ![nticks + 2] = "start"]
    /\ timer' = now + Refresh
    /\ UNCHANGED <<now, ctxErr, lpc, ret, rcv, t, mu, latest, command, pureVars>>
    /\ UNCHANGED <<updated, data, wg, fetch, dispVars, histVars>>

\* case <-time.After(refresh): go func() {...}(); the loop re-enters select
\* with a new timer
Tick ==
    /\ lpc = "select"
    /\ now >= timer
    /\ nticks < MaxCycles
    /\ nticks' = nticks + 1
    /\ cpc' = [cpc EXCEPT ![nticks + 1] = "start"]
    /\ timer' = now + Refresh
    /\ UNCHANGED <<now, ctxErr, lpc, ret, rcv, t, mu, latest, command, pureVars>>
    /\ UNCHANGED <<updated, data, wg, fetch, dispVars, histVars>>

\* the loop taking the next snapshot only when no dispatch goroutine is running
Recv_AfterDispatch(c) ==
    /\ lpc = "select"
    /\ cpc[c] = "send"
    /\ \A c2 \in Cycles : dpc[c2] \in {"none", "done"}
    /\ cpc' = [cpc EXCEPT ![c] = "done"]
    /\ rcv' = c
    /\ lpc' = "lock"
    /\ UNCHANGED <<now, ctxErr, ret, timer, nticks, t, mu, latest, command, pureVars>>
    /\ UNCHANGED <<updated, data, wg, fetch, dispVars, histVars>>

\* case sources := <-sourcesData: the rendezvous with a cycle blocked in its send
Recv(c) ==
    /\ lpc = "select"
    /\ cpc[c] = "send"
    /\ cpc' = [cpc EXCEPT ![c] = "done"]
    /\ rcv' = c
    /\ lpc' = "lock"
    /\ UNCHANGED <<now, ctxErr, ret, timer, nticks, t, mu, latest, command, pureVars>>
    /\ UNCHANGED <<updated, data, wg, fetch, dispVars, histVars>>

\* latest.mu.Lock()
GateLock ==
    /\ lpc = "lock"
    /\ mu = << >>
    /\ mu' = <<"loop">>
    /\ lpc' = "locked"
    /\ UNCHANGED <<now, ctxErr, ret, timer, nticks, rcv, t, latest, command, pureVars>>
    /\ UNCHANGED <<cycleVars, dispVars, histVars>>

\* t := latest.t; latest.mu.Unlock()
GateRead ==
    /\ lpc = "locked"
    /\ t' = latest
    /\ mu' = << >>
    /\ lpc' = "cmp"
    /\ UNCHANGED <<now, ctxErr, ret, timer, nticks, rcv, latest, command, pureVars>>
    /\ UNCHANGED <<cycleVars, dispVars, histVars>>

\* the stale branch without its break: the dispatch goroutine is started anyway
Discard_FallThrough(c) ==
    /\ gateLog' = Append(gateLog, [c |-> c, apply |-> FALSE])
    /\ dpc' = [dpc EXCEPT ![c] = "run"]
    /\ di' = [di EXCEPT ![c] = 1]
    /\ UNCHANGED <<dk, gauge, wlog, werr, pushed, lastPush, prevPush, succ, lastPull, calls, writer>>

\* the stale branch: log and break
Discard(c) ==
    /\ gateLog' = Append(gateLog, [c |-> c, apply |-> FALSE])
    /\ UNCHANGED <<dispVars, pushed, lastPush, prevPush, succ, lastPull, calls, writer>>

\* go func() { defer ...; for _, m := range ws.monitors {...} }()
Apply(c) ==
    /\ gateLog' = Append(gateLog, [c |-> c, apply |-> TRUE])
    /\ dpc' = [dpc EXCEPT ![c] = "run"]
    /\ di' = [di EXCEPT ![c] = 1]
    /\ UNCHANGED <<dk, gauge, wlog, werr, pushed, lastPush, prevPush, succ, lastPull, calls, writer>>

\* if time.Since(t) < time.Since(sources.updated) { ...; break }; go func...
\* the clock may advance by d between the two reads
GateDecideWithin(h, d) ==
    /\ lpc = "cmp"
    /\ now + d <= h
    /\ now' = now + d
    /\ IF Stale(t, updated[rcv], now, now + d) THEN Discard(rcv) ELSE Apply(rcv)
    /\ lpc' = "select"
    /\ timer' = now' + Refresh
    /\ rcv' = 0
    /\ UNCHANGED <<ctxErr, ret, nticks, t, mu, latest, command, pureVars, cycleVars>>

GateDecide(d) == GateDecideWithin(MaxTime, d)

\* ------------------------------------------------------ the cycle goroutine
\* updated := time.Now(); data := &sync.Map{}; wg.Add(len(ws.sources));
\* for _, source := range ws.sources { go func(s *Source) {...}(source) }
CycleBegin(c) ==
    /\ cpc[c] = "start"
    /\ updated' = [updated EXCEPT ![c] = now]
    /\ wg' = [wg EXCEPT ![c] = NumSources]
    /\ fetch' = [fetch EXCEPT ![c] = [s \in Sources |-> "running"]]
    /\ cpc' = [cpc EXCEPT ![c] = "wait"]
    /\ calls' = [calls EXCEPT ![c] = [s \in Sources |-> [@[s] EXCEPT !.pull = @ + 1]]]
    /\ UNCHANGED <<now, ctxErr, loopVars, mu, latest, command, pureVars, data>>
    /\ UNCHANGED <<dispVars, pushed, lastPush, prevPush, gateLog, succ, lastPull, writer>>

\* data.Store outside the else branch: the nil records of a failed pull are stored
Store_Always(d, s, res) ==
    (s :> (IF res.records = << >> THEN << >> ELSE res.records[1])) @@ d

\* if err != nil { log } else { data.Store(s.c.Id, records) }
Store(d, s, res) ==
    IF res.err # NoErr THEN d ELSE (s :> res.records[1]) @@ d

\* wg.Done() only on the success branch
Done_SkipOnErr(w, res) == IF res.err # NoErr THEN w ELSE w - 1

\* wg.Done(), reached on both branches
Done(w, res) == w - 1

\* the fetch goroutine calling s.pull() again when it has returned an error
FetchDone_Retry(c, s, exec, parse) ==
    /\ fetch[c][s] = "running"
    /\ LET res == pull(command[s], exec, parse)
           called(f) == \E i \in 1..Len(res.calls) : res.calls[i] = f
       IN /\ data' = [data EXCEPT ![c] = Store(data[c], s, res)]
          /\ succ' = [succ EXCEPT ![c] = IF res.err = NoErr THEN @ \cup {s} ELSE @]
          /\ lastPull' = [lastPull EXCEPT ![s] =
                 <<[exec |-> IF called("Execute") THEN <<exec>> ELSE << >>,
                    parse |-> IF called("Parse") THEN <<parse>> ELSE << >>,
                    out |-> res]>>]
          /\ calls' = [calls EXCEPT ![c][s].exec =
                 IF called("Execute") THEN @ + 1 ELSE @]
          /\ IF res.err # NoErr /\ calls[c][s].exec < 2
             THEN UNCHANGED <<wg, fetch>>
             ELSE /\ wg' = [wg EXCEPT ![c] = Done(@, res)]
                  /\ fetch' = [fetch EXCEPT ![c][s] = "done"]
    /\ UNCHANGED <<now, ctxErr, loopVars, mu, latest, command, pureVars, cpc, updated>>
    /\ UNCHANGED <<dispVars, pushed, lastPush, prevPush, gateLog, writer>>

\* records, err := s.pull(); ...; wg.Done()
FetchDone(c, s, exec, parse) ==
    /\ fetch[c][s] = "running"
    /\ LET res == pull(command[s], exec, parse)
           called(f) == \E i \in 1..Len(res.calls) : res.calls[i] = f
       IN /\ data' = [data EXCEPT ![c] = Store(data[c], s, res)]
          /\ succ' = [succ EXCEPT ![c] = IF res.err = NoErr THEN @ \cup {s} ELSE @]
          /\ lastPull' = [lastPull EXCEPT ![s] =
                 <<[exec |-> IF called("Execute") THEN <<exec>> ELSE << >>,
                    parse |-> IF called("Parse") THEN <<parse>> ELSE << >>,
                    out |-> res]>>]
          /\ calls' = [calls EXCEPT ![c][s].exec =
                 IF called("Execute") THEN @ + 1 ELSE @]
    /\ wg' = [wg EXCEPT ![c] = Done(@, pull(command[s], exec, parse))]
    /\ fetch' = [fetch EXCEPT ![c][s] = "done"]
    /\ UNCHANGED <<now, ctxErr, loopVars, mu, latest, command, pureVars, cpc, updated>>
    /\ UNCHANGED <<dispVars, pushed, lastPush, prevPush, gateLog, writer>>

\* the send without the wg.Wait() before it
CycleJoin_NoWait(c) ==
    /\ cpc[c] = "wait"
    /\ cpc' = [cpc EXCEPT ![c] = "send"]
    /\ UNCHANGED <<now, ctxErr, loopVars, mu, latest, command, pureVars>>
    /\ UNCHANGED <<updated, data, wg, fetch, dispVars, histVars>>

\* the snapshot sent only when some source has stored its records
CycleJoin_SendOnData(c) ==
    /\ cpc[c] = "wait"
    /\ wg[c] = 0
    /\ DOMAIN data[c] # {}
    /\ cpc' = [cpc EXCEPT ![c] = "send"]
    /\ UNCHANGED <<now, ctxErr, loopVars, mu, latest, command, pureVars>>
    /\ UNCHANGED <<updated, data, wg, fetch, dispVars, histVars>>

\* the snapshot stamped again with the time at which the fetches have ended
CycleJoin_Restamp(c) ==
    /\ cpc[c] = "wait"
    /\ wg[c] = 0
    /\ cpc' = [cpc EXCEPT ![c] = "send"]
    /\ updated' = [updated EXCEPT ![c] = now]
    /\ UNCHANGED <<now, ctxErr, loopVars, mu, latest, command, pureVars>>
    /\ UNCHANGED <<data, wg, fetch, dispVars, histVars>>

\* wg.Wait() returns; the goroutine blocks in sourcesData <- SourcesData{data, updated}
CycleJoin(c) ==
    /\ cpc[c] = "wait"
    /\ wg[c] = 0
    /\ cpc' = [cpc EXCEPT ![c] = "send"]
    /\ UNCHANGED <<now, ctxErr, loopVars, mu, latest, command, pureVars>>
    /\ UNCHANGED <<updated, data, wg, fetch, dispVars, histVars>>

\* --------------------------------------------------- the dispatch goroutine
\* value, ok := sources.data.Load(m.c.Value.SourceId);
\* records, ok := value.(records)[m.c.Value.RecordId]
HasRows(c, m) ==
    /\ SourceIdOf(m) \in DOMAIN data[c]
    /\ RecordIdOf(m) \in DOMAIN data[c][SourceIdOf(m)]

RowsOf(c, m) == data[c][SourceIdOf(m)][RecordIdOf(m)]

\* the range over ws.monitors left at the first monitor without rows
DispatchMonitor_StopOnMissing(c) ==
    /\ dpc[c] = "run"
    /\ di[c] <= NumMonitors
    /\ dk[c] = 0
    /\ LET m == di[c] IN
       IF ~HasRows(c, m)
       THEN /\ di' = [di EXCEPT ![c] = NumMonitors + 1]
            /\ UNCHANGED <<dk, wlog, werr, pushed, lastPush, prevPush>>
       ELSE /\ pushed' = [pushed EXCEPT ![c] = @ \cup {m}]
            /\ wlog' = [wlog EXCEPT ![c] = [m |-> m, w |-> << >>]]
            /\ UNCHANGED werr
            /\ lastPush' = [lastPush EXCEPT ![m] = c]
            /\ prevPush' = [prevPush EXCEPT ![m] = lastPush[m]]
            /\ IF RowsOf(c, m) = << >>
               THEN /\ di' = [di EXCEPT ![c] = @ + 1]
                    /\ UNCHANGED dk
               ELSE /\ dk' = [dk EXCEPT ![c] = 1]
                    /\ UNCHANGED di
    /\ UNCHANGED <<now, ctxErr, loopVars, mu, latest, command, pureVars, cycleVars>>
    /\ UNCHANGED <<dpc, gauge, gateLog, succ, lastPull, calls, writer>>

\* the gauge of a monitor cleared when the snapshot holds no rows for it
DispatchMonitor_Reset(c) ==
    /\ dpc[c] = "run"
    /\ di[c] <= NumMonitors
    /\ dk[c] = 0
    /\ LET m == di[c] IN
       IF ~HasRows(c, m)
       THEN /\ di' = [di EXCEPT ![c] = @ + 1]
            /\ gauge' = [gauge EXCEPT ![m] = [l \in Labels |-> 0]]
            /\ UNCHANGED <<dk, wlog, werr, pushed, lastPush, prevPush>>
       ELSE /\ pushed' = [pushed EXCEPT ![c] = @ \cup {m}]
            /\ wlog' = [wlog EXCEPT ![c] = [m |-> m, w |-> << >>]]
            /\ UNCHANGED werr
            /\ lastPush' = [lastPush EXCEPT ![m] = c]
            /\ prevPush' = [prevPush EXCEPT ![m] = lastPush[m]]
            /\ UNCHANGED gauge
            /\ IF RowsOf(c, m) = << >>
               THEN /\ di' = [di EXCEPT ![c] = @ + 1]
                    /\ UNCHANGED dk
               ELSE /\ dk' = [dk EXCEPT ![c] = 1]
                    /\ UNCHANGED di
    /\ UNCHANGED <<now, ctxErr, loopVars, mu, latest, command, pureVars, cycleVars>>
    /\ UNCHANGED <<dpc, gateLog, succ, lastPull, calls, writer>>

\* one iteration of the range over ws.monitors up to the call of m.push
DispatchMonitor(c) ==
    /\ dpc[c] = "run"
    /\ di[c] <= NumMonitors
    /\ dk[c] = 0
    /\ LET m == di[c] IN
       IF ~HasRows(c, m)
       THEN /\ di' = [di EXCEPT ![c] = @ + 1]
            /\ UNCHANGED <<dk, wlog, werr, pushed, lastPush, prevPush>>
       ELSE /\ pushed' = [pushed EXCEPT ![c] = @ \cup {m}]
            /\ wlog' = [wlog EXCEPT ![c] = [m |-> m, w |-> << >>]]
            /\ UNCHANGED werr
            /\ lastPush' = [lastPush EXCEPT ![m] = c]
            /\ prevPush' = [prevPush EXCEPT ![m] = lastPush[m]]
            /\ IF RowsOf(c, m) = << >>
               THEN /\ di' = [di EXCEPT ![c] = @ + 1]
                    /\ UNCHANGED dk
               ELSE /\ dk' = [dk EXCEPT ![c] = 1]
                    /\ UNCHANGED di
    /\ UNCHANGED <<now, ctxErr, loopVars, mu, latest, command, pureVars, cycleVars>>
    /\ UNCHANGED <<dpc, gauge, gateLog, succ, lastPull, calls, writer>>

\* gaugeMetric.Write: monitor.gauge.WithLabelValues(m.labels...).Set(m.value)
Write(g, mt) == [g EXCEPT ![mt.labels] = mt.value]

\* Monitor.push returning after its first write
PushRow_FirstOnly(c) ==
    /\ dpc[c] = "run"
    /\ dk[c] >= 1
    /\ LET m == di[c]
           mt == MetricOf(c, RowsOf(c, m)[dk[c]])
       IN /\ gauge' = [gauge EXCEPT ![m] = Write(@, mt)]
          /\ wlog' = [wlog EXCEPT ![c].w = Append(@, mt)]
          /\ di' = [di EXCEPT ![c] = @ + 1]
          /\ dk' = [dk EXCEPT ![c] = 0]
    /\ UNCHANGED <<now, ctxErr, loopVars, mu, latest, command, pureVars, cycleVars>>
    /\ UNCHANGED <<dpc, werr, histVars>>

\* what a Metric's Write may return: gaugeMetric.Write returns nil always, the
\* Metric of the tests returns the error it was built with
ErrWrite == "write failed"
GaugeResults == {NoErr}
WriteResults == {NoErr, ErrWrite}

\* Monitor.push returning at the first Write that fails
PushRowWith_StopOnError(E, c) ==
    /\ dpc[c] = "run"
    /\ dk[c] >= 1
    /\ \E e \in E :
       LET m == di[c]
           mt == MetricOf(c, RowsOf(c, m)[dk[c]])
       IN /\ gauge' = [gauge EXCEPT ![m] = IF e = NoErr THEN Write(@, mt) ELSE @]
          /\ wlog' = [wlog EXCEPT ![c].w = Append(@, mt)]
          /\ werr' = [werr EXCEPT ![c] = IF e = NoErr THEN @ ELSE @ \cup {<<m, dk[c]>>}]
          /\ IF dk[c] = Len(RowsOf(c, m)) \/ e # NoErr
             THEN /\ di' = [di EXCEPT ![c] = @ + 1]
                  /\ dk' = [dk EXCEPT ![c] = 0]
             ELSE /\ dk' = [dk EXCEPT ![c] = @ + 1]
                  /\ UNCHANGED di
    /\ UNCHANGED <<now, ctxErr, loopVars, mu, latest, command, pureVars, cycleVars>>
    /\ UNCHANGED <<dpc, histVars>>

\* Monitor.push: m.metric.Write(m, r.value(m.c.Value)) for the next row, with
\* a Metric whose Write returns one of E; the result is dropped by push
PushRowWith(E, c) ==
    /\ dpc[c] = "run"
    /\ dk[c] >= 1
    /\ \E e \in E :
       LET m == di[c]
           mt == MetricOf(c, RowsOf(c, m)[dk[c]])
       IN /\ gauge' = [gauge EXCEPT ![m] = IF e = NoErr THEN Write(@, mt) ELSE @]
          /\ wlog' = [wlog EXCEPT ![c].w = Append(@, mt)]
          /\ werr' = [werr EXCEPT ![c] = IF e = NoErr THEN @ ELSE @ \cup {<<m, dk[c]>>}]
          /\ IF dk[c] = Len(RowsOf(c, m))
             THEN /\ di' = [di EXCEPT ![c] = @ + 1]
                  /\ dk' = [dk EXCEPT ![c] = 0]
             ELSE /\ dk' = [dk EXCEPT ![c] = @ + 1]
                  /\ UNCHANGED di
    /\ UNCHANGED <<now, ctxErr, loopVars, mu, latest, command, pureVars, cycleVars>>
    /\ UNCHANGED <<dpc, histVars>>

\* Monitor.push of a monitor whose metric is the gaugeMetric
PushRow(c) == PushRowWith(GaugeResults, c)

\* the deferred function taking latest.mu without waiting for its holder
DeferLock_NoWait(c) ==
    /\ dpc[c] = "run"
    /\ di[c] > NumMonitors
    /\ mu' = <<"dispatch", c>>
    /\ dpc' = [dpc EXCEPT ![c] = "defer"]
    /\ UNCHANGED <<now, ctxErr, loopVars, latest, command, pureVars, cycleVars>>
    /\ UNCHANGED <<di, dk, gauge, wlog, werr, histVars>>

\* the deferred function: latest.mu.Lock()
DeferLock(c) ==
    /\ dpc[c] = "run"
    /\ di[c] > NumMonitors
    /\ mu = << >>
    /\ mu' = <<"dispatch", c>>
    /\ dpc' = [dpc EXCEPT ![c] = "defer"]
    /\ UNCHANGED <<now, ctxErr, loopVars, latest, command, pureVars, cycleVars>>
    /\ UNCHANGED <<di, dk, gauge, wlog, werr, histVars>>

\* latest.t = sources.updated; latest.mu.Unlock()
DeferSet(c) ==
    /\ dpc[c] = "defer"
    /\ latest' = updated[c]
    /\ writer' = c
    /\ mu' = << >>
    /\ dpc' = [dpc EXCEPT ![c] = "done"]
    /\ UNCHANGED <<now, ctxErr, loopVars, command, pureVars, cycleVars>>
    /\ UNCHANGED <<di, dk, gauge, wlog, werr, pushed, lastPush, prevPush, gateLog, succ, lastPull, calls>>

\* ---------------------------------------------------------- the environment
\* the clock advances
AdvanceWithin(h) ==
    /\ now < h
    /\ now' = now + 1
    /\ UNCHANGED <<ctxErr, loopVars, mu, latest, command, pureVars>>
    /\ UNCHANGED <<cycleVars, dispVars, histVars>>

Advance == AdvanceWithin(MaxTime)

\* the context passed to Start is cancelled or its deadline passes
Cancel(e) ==
    /\ ctxErr = NoErr
    /\ ctxErr' = e
    /\ UNCHANGED <<now, loopVars, mu, latest, command, pureVars>>
    /\ UNCHANGED <<cycleVars, dispVars, histVars>>

Next ==
    \/ Return
    \/ Tick
    \/ \E c \in Cycles : Recv(c)
    \/ GateLock
    \/ GateRead
    \/ \E d \in 0..MaxTime : GateDecide(d)
    \/ \E c \in Cycles : CycleBegin(c)
    \/ \E c \in Cycles, s \in Sources, exec \in ExecResults, parse \in ParseResults :
          FetchDone(c, s, exec, parse)
    \/ \E c \in Cycles : CycleJoin(c)
    \/ \E c \in Cycles : DispatchMonitor(c)
    \/ \E c \in Cycles : PushRow(c)
    \/ \E c \in Cycles : DeferLock(c)
    \/ \E c \in Cycles : DeferSet(c)
    \/ Advance
    \/ \E e \in CtxErrs : Cancel(e)

Spec == Init /\ [][Next]_vars

\* The same program watched over a longer stretch of the clock, with the
\* command of the first source defined and that of the second undefined.
LongTime == MaxTime + 2

InitLong ==
    /\ Init
    /\ command = [s \in Sources |-> s = 1]

NextLong ==
    \/ Return
    \/ Tick
    \/ \E c \in Cycles : Recv(c)
    \/ GateLock
    \/ GateRead
    \/ \E d \in 0..LongTime : GateDecideWithin(LongTime, d)
    \/ \E c \in Cycles : CycleBegin(c)
    \/ \E c \in Cycles, s \in Sources, exec \in ExecResults, parse \in ParseResults :
          FetchDone(c, s, exec, parse)
    \/ \E c \in Cycles : CycleJoin(c)
    \/ \E c \in Cycles : DispatchMonitor(c)
    \/ \E c \in Cycles : PushRow(c)
    \/ \E c \in Cycles : DeferLock(c)
    \/ \E c \in Cycles : DeferSet(c)
    \/ AdvanceWithin(LongTime)
    \/ \E e \in CtxErrs : Cancel(e)

SpecLong == InitLong /\ [][NextLong]_vars

\* The same program with every source command defined and monitors whose
\* Metric may fail a Write.
InitWrite ==
    /\ Init
    /\ command = [s \in Sources |-> TRUE]

NextWrite ==
    \/ Return
    \/ Tick
    \/ \E c \in Cycles : Recv(c)
    \/ GateLock
    \/ GateRead
    \/ \E d \in 0..MaxTime : GateDecide(d)
    \/ \E c \in Cycles : CycleBegin(c)
    \/ \E c \in Cycles, s \in Sources, exec \in ExecResults, parse \in ParseResults :
          FetchDone(c, s, exec, parse)
    \/ \E c \in Cycles : CycleJoin(c)
    \/ \E c \in Cycles : DispatchMonitor(c)
    \/ \E c \in Cycles : PushRowWith(WriteResults, c)
    \/ \E c \in Cycles : DeferLock(c)
    \/ \E c \in Cycles : DeferSet(c)
    \/ Advance
    \/ \E e \in CtxErrs : Cancel(e)

SpecWrite == InitWrite /\ [][NextWrite]_vars

TypeOK ==
    /\ now \in 1..MaxTime
    /\ lpc \in {"select", "lock", "locked", "cmp", "returned"}
    /\ nticks \in 0..MaxCycles
    /\ rcv \in 0..MaxCycles
    /\ \A c \in Cycles : cpc[c] \in {"none", "start", "wait", "send", "done"}
    /\ \A c \in Cycles : dpc[c] \in {"none", "run", "defer", "done"}
    /\ \A c \in Cycles : wg[c] \in 0..NumSources

\* ------------------------------------------------------------ record.value
\* Strings are sequences of characters over digits, the space and letters.
MaxLabels == 2

Digits == {"1", "2"}
DigitVal(ch) == IF ch = "1" THEN 1 ELSE 2

\* field values of a row and the scan formats of a rule; a format is held as
\* its items: a verb, a space or a literal character
ValStrings ==
    { << >>, <<"1", "2">>, <<"1", " ", "M">>, <<"1", "M">>, <<"M">>, <<"2", " ", "Q">> }
ValueFormats ==
    { << >>, <<"%f">>, <<"%d">>, <<"%f", " ", "M">>, <<"%f", "M">> }
LabelFormats ==
    { << >>, <<"%s">>, <<"%s", " ", "M">>, <<"%f">> }
Verbs == {"%f", "%d", "%s"}

RowFields == {"f", "g"}
Rows == UNION {[S -> ValStrings] : S \in SUBSET RowFields}
LabelRules == [Header : {"g", "h"}, Format : LabelFormats]
LabelLists == UNION {[1..n -> LabelRules] : n \in 0..MaxLabels}
ValueRules == [Header : {"f", "h"}, Format : ValueFormats, Labels : LabelLists]

\* the index after the longest run of characters satisfying the test, from i
RECURSIVE RunEnd(_, _, _)
RunEnd(in, i, digits) ==
    IF i > Len(in) THEN i
    ELSE IF (digits /\ in[i] \in Digits) \/ (~digits /\ in[i] # " ")
    THEN RunEnd(in, i + 1, digits)
    ELSE i

\* ss.SkipSpace
RECURSIVE SkipSpace(_, _)
SkipSpace(in, i) ==
    IF i <= Len(in) /\ in[i] = " " THEN SkipSpace(in, i + 1) ELSE i

\* strconv.ParseFloat on a run of digits
RECURSIVE Num(_)
Num(ds) ==
    IF ds = << >> THEN 0
    ELSE 10 * Num(SubSeq(ds, 1, Len(ds) - 1)) + DigitVal(ds[Len(ds)])

\* ss.scanOne for the one operand: *float64 takes the verbs of floats and a
\* number token, *string takes %s and a token up to the next space; nothing is
\* stored when the verb is bad, the input is at its end or the token is empty
ScanOne(in, pos, verb, kind, val) ==
    LET p == SkipSpace(in, pos)
        e == RunEnd(in, p, kind = "float")
    IN IF kind = "float" /\ verb # "%f"
       THEN [val |-> val, pos |-> p, err |-> "bad verb"]
       ELSE IF kind = "string" /\ verb # "%s"
       THEN [val |-> val, pos |-> p, err |-> "bad verb"]
       ELSE IF p > Len(in)
       THEN [val |-> val, pos |-> p, err |-> "unexpected EOF"]
       ELSE IF e = p
       THEN [val |-> val, pos |-> p, err |-> "invalid syntax"]
       ELSE [val |-> IF kind = "float" THEN Num(SubSeq(in, p, e - 1))
                     ELSE SubSeq(in, p, e - 1),
             pos |-> e, err |-> NoErr]

\* fmt.Sscanf(in, format, &operand) from format item k on: val is what the
\* operand holds, n the operands stored so far
RECURSIVE DoScanf(_, _, _, _, _, _, _)
DoScanf(in, format, kind, k, pos, n, val) ==
    IF k > Len(format)
    THEN [val |-> val, err |-> IF n < 1 THEN "too many operands" ELSE NoErr]
    ELSE IF format[k] = " "
    THEN DoScanf(in, format, kind, k + 1, SkipSpace(in, pos), n, val)
    ELSE IF format[k] \notin Verbs
    THEN IF pos <= Len(in) /\ in[pos] = format[k]
         THEN DoScanf(in, format, kind, k + 1, pos + 1, n, val)
         ELSE [val |-> val, err |-> "input does not match format"]
    ELSE IF n >= 1
    THEN [val |-> val, err |-> "too few operands"]
    ELSE LET r == ScanOne(in, pos, format[k], kind, val)
         IN IF r.err # NoErr
            THEN [val |-> val, err |-> r.err]
            ELSE DoScanf(in, format, kind, k + 1, r.pos, n + 1, r.val)

Sscanf(in, format, kind, val) == DoScanf(in, format, kind, 1, 1, 0, val)

labelNames(ll) == [i \in 1..Len(ll) |-> ll[i].Header]

\* record.value appending a label only for the fields the row has
value_SkipMissing(r, c) ==
    LET val == IF c.Header \in DOMAIN r
               THEN Sscanf(r[c.Header], c.Format, "float", 0).val
               ELSE 0
        Has(k) == k.Header \in DOMAIN r
        kept == SelectSeq(c.Labels, Has)
        ll == [i \in 1..Len(kept) |->
                  IF kept[i].Format # << >>
                  THEN Sscanf(r[kept[i].Header], kept[i].Format, "string", << >>).val
                  ELSE r[kept[i].Header]]
    IN [labels |-> ll, value |-> val]

\* func (r record) value(c MonitorValueConfig) metric
value(r, c) ==
    LET val == IF c.Header \in DOMAIN r
               THEN Sscanf(r[c.Header], c.Format, "float", 0).val
               ELSE 0
        ll == [i \in 1..Len(c.Labels) |->
                  LET k == c.Labels[i] IN
                  IF k.Header \in DOMAIN r
                  THEN IF k.Format # << >>
                       THEN Sscanf(r[k.Header], k.Format, "string", << >>).val
                       ELSE r[k.Header]
                  ELSE << >>]
    IN [labels |-> ll, value |-> val]

\* a call of record.value on any row with any rule
InitValue ==
    /\ InitStart
    /\ command = [s \in Sources |-> TRUE]
    /\ vin \in {<<[row |-> r, rule |-> c]>> : r \in Rows, c \in ValueRules}
    /\ vout = << >>

Value ==
    /\ vin # << >>
    /\ vout = << >>
    /\ vout' = <<value(vin[1].row, vin[1].rule)>>
    /\ UNCHANGED <<now, ctxErr, loopVars, mu, latest, command, vin>>
    /\ UNCHANGED <<cycleVars, dispVars, histVars>>

NextValue == Value

SpecValue == InitValue /\ [][NextValue]_vars

\* ------------------------------------------------------------- the parsers
MaxRows == 3
MaxLines == 2
MaxLineLen == 3
MaxRecords == 2

NoPanic == "none"
PanicIndex == "index out of range"
PanicSlice == "slice bounds out of range"

\* the record of one row: header[j] is mapped to cell j, a later position of
\* the same name overwriting an earlier one
ZipRow(header, r) ==
    [h \in {header[j] : j \in 1..Len(header)} |->
        r[CHOOSE j \in 1..Len(header) :
              header[j] = h /\ \A k \in (j + 1)..Len(header) : header[k] # h]]

\* func (t table) zip(header []string, skipFirstLine bool) []record
\* r[j] panics on a row shorter than the header, res[1:] on an empty table
zip(tb, header, skipFirstLine) ==
    LET all == [i \in 1..Len(tb) |-> ZipRow(header, tb[i])]
    IN IF \E i \in 1..Len(tb) : Len(tb[i]) < Len(header)
       THEN [res |-> << >>, panic |-> PanicIndex]
       ELSE IF skipFirstLine /\ Len(tb) = 0
       THEN [res |-> << >>, panic |-> PanicSlice]
       ELSE [res |-> IF skipFirstLine THEN Tail(all) ELSE all, panic |-> NoPanic]

\* ---- csv.Reader with Comma = ':' and TrimLeadingSpace, on lines of characters
ErrFieldCount == "wrong number of fields"

RECURSIVE TrimLeft(_)
TrimLeft(f) ==
    IF f # << >> /\ Head(f) = " " THEN TrimLeft(Tail(f)) ELSE f

\* the fields of one line: split at every ':', leading spaces trimmed
RECURSIVE SplitLine(_, _)
SplitLine(line, cur) ==
    IF line = << >> THEN <<TrimLeft(cur)>>
    ELSE IF Head(line) = ":"
    THEN <<TrimLeft(cur)>> \o SplitLine(Tail(line), << >>)
    ELSE SplitLine(Tail(line), Append(cur, Head(line)))

\* csvr.ReadAll(): empty lines are skipped, the first record fixes the number
\* of fields and a record with another number is an error
ReadAll(lines) ==
    LET NotEmpty(l) == l # << >>
        kept == SelectSeq(lines, NotEmpty)
        rows == [i \in 1..Len(kept) |-> SplitLine(kept[i], << >>)]
    IN IF \E i \in 1..Len(rows) : Len(rows[i]) # Len(rows[1])
       THEN [data |-> << >>, err |-> ErrFieldCount]
       ELSE [data |-> rows, err |-> NoErr]

\* the loop over s.c.Output.Records of csvParser.Parse from record spec i on
RECURSIVE ZipRecords(_, _, _, _)
ZipRecords(tb, specs, i, res) ==
    IF i > Len(specs)
    THEN [records |-> <<res>>, err |-> NoErr, panic |-> NoPanic]
    ELSE LET r == specs[i]
             z == zip(tb, r.Header, r.FirstLineIsHeader)
         IN IF z.panic # NoPanic
            THEN [records |-> << >>, err |-> NoErr, panic |-> z.panic]
            ELSE ZipRecords(tb, specs, i + 1, (r.Id :> z.res) @@ res)

\* func (*csvParser) Parse(s *Source, r io.Reader) (records, error)
csvParser_Parse(specs, lines) ==
    LET rd == ReadAll(lines)
    IN IF rd.err # NoErr
       THEN [records |-> << >>, err |-> rd.err, panic |-> NoPanic]
       ELSE ZipRecords(rd.data, specs, 1, << >>)

\* ---- htmlqueryParser on a document given as the table body found at each path
ErrFormat == "htmlqueryParser: invalid parser option 'format'"
ErrPath == "htmlqueryParser: invalid parser option 'path'"

Option(r, k) == IF k \in DOMAIN r.ParserOptions THEN r.ParserOptions[k] ELSE ""

\* func (p *htmlqueryParser) parseFormatTable(r *ParserRecordConfig, doc *html.Node)
\* the rows are the tr children with at least one td, a row the texts of its td
parseFormatTable(r, doc) ==
    IF "path" \notin DOMAIN r.ParserOptions
    THEN [t |-> << >>, err |-> ErrPath]
    ELSE LET HasTd(tr) == tr # << >>
         IN [t |-> SelectSeq(doc[r.ParserOptions["path"]], HasTd), err |-> NoErr]

\* func (p *htmlqueryParser) Parse(s *Source, r io.Reader) (records, error)
\* from record spec i on; errOptions is the option map printed in the error
RECURSIVE htmlqueryParser_Parse(_, _, _, _)
htmlqueryParser_Parse(specs, doc, i, res) ==
    IF i > Len(specs)
    THEN [records |-> <<res>>, err |-> NoErr, errOptions |-> << >>, panic |-> NoPanic]
    ELSE LET r == specs[i]
             pt == parseFormatTable(r, doc)
             z == zip(pt.t, r.Header, r.FirstLineIsHeader)
         IN IF Option(r, "format") # "table"
            THEN [records |-> << >>, err |-> ErrFormat,
                  errOptions |-> <<r.ParserOptions>>, panic |-> NoPanic]
            ELSE IF pt.err # NoErr
            THEN [records |-> << >>, err |-> pt.err,
                  errOptions |-> <<r.ParserOptions>>, panic |-> NoPanic]
            ELSE IF z.panic # NoPanic
            THEN [records |-> << >>, err |-> NoErr, errOptions |-> << >>,
                  panic |-> z.panic]
            ELSE htmlqueryParser_Parse(specs, doc, i + 1, (r.Id :> z.res) @@ res)

\* ---- the inputs
Cells == {"0", "s"}
HeaderNames == {"x", "y"}
Headers == UNION {[1..n -> HeaderNames] : n \in 0..2}
TableRows == UNION {[1..n -> Cells] : n \in 0..2}
Tables == UNION {[1..n -> TableRows] : n \in 0..MaxRows}

LineChars == {"a", " ", ":"}
Lines == UNION {[1..n -> LineChars] : n \in 0..MaxLineLen}
Texts == UNION {[1..n -> Lines] : n \in 0..MaxLines}
CsvSpecs ==
    [Id : {"r1"}, Header : {<< >>, <<"x">>, <<"x", "y">>},
     FirstLineIsHeader : BOOLEAN, ParserOptions : {<< >>}]
CsvSpecLists == UNION {[1..n -> CsvSpecs] : n \in 0..MaxRecords}

Paths == {"p1"}
Trs == {<< >>, <<"0">>, <<"0", "s">>}
Bodies == UNION {[1..n -> Trs] : n \in 0..MaxLines}
Docs == [Paths -> Bodies]
OptionMaps ==
    UNION {[K -> {"table", "list"} \cup Paths] : K \in SUBSET {"format", "path"}}
HtmlOptions ==
    {o \in OptionMaps :
        /\ "format" \in DOMAIN o => o["format"] \in {"table", "list"}
        /\ "path" \in DOMAIN o => o["path"] \in Paths}
HtmlSpecs ==
    [Id : {"r1", "r2"}, Header : {<< >>, <<"x">>, <<"x", "y">>},
     FirstLineIsHeader : BOOLEAN, ParserOptions : HtmlOptions]
HtmlSpecLists == UNION {[1..n -> HtmlSpecs] : n \in 0..MaxRecords}

\* a call of table.zip, csvParser.Parse or htmlqueryParser.Parse on any input
InitParse ==
    /\ InitStart
    /\ command = [s \in Sources |-> TRUE]
    /\ vin \in
          {<<[fn |-> "zip", t |-> tb, header |-> h, skipFirstLine |-> b]>> :
               tb \in Tables, h \in Headers, b \in BOOLEAN}
          \cup {<<[fn |-> "csv", specs |-> ss, lines |-> tx]>> :
                   ss \in CsvSpecLists, tx \in Texts}
          \cup {<<[fn |-> "html", specs |-> ss, doc |-> d]>> :
                   ss \in HtmlSpecLists, d \in Docs}
    /\ vout = << >>

Zip ==
    /\ vin # << >>
    /\ vin[1].fn = "zip"
    /\ vout = << >>
    /\ vout' = <<zip(vin[1].t, vin[1].header, vin[1].skipFirstLine)>>
    /\ UNCHANGED <<now, ctxErr, loopVars, mu, latest, command, vin>>
    /\ UNCHANGED <<cycleVars, dispVars, histVars>>

CsvParse ==
    /\ vin # << >>
    /\ vin[1].fn = "csv"
    /\ vout = << >>
    /\ vout' = <<csvParser_Parse(vin[1].specs, vin[1].lines)>>
    /\ UNCHANGED <<now, ctxErr, loopVars, mu, latest, command, vin>>
    /\ UNCHANGED <<cycleVars, dispVars, histVars>>

HtmlParse ==
    /\ vin # << >>
    /\ vin[1].fn = "html"
    /\ vout = << >>
    /\ vout' = <<htmlqueryParser_Parse(vin[1].specs, vin[1].doc, 1, << >>)>>
    /\ UNCHANGED <<now, ctxErr, loopVars, mu, latest, command, vin>>
    /\ UNCHANGED <<cycleVars, dispVars, histVars>>

NextParse ==
    \/ Zip
    \/ CsvParse
    \/ HtmlParse

SpecParse == InitParse /\ [][NextParse]_vars

\* --------------------------------------------------------- NewWatchService
MaxConfig == 2

Nil == "nil"

MonitorConfigs ==
    [Id : {"m1", "m2"}, Type : {"", "gauge", "counter"},
     Value : [Header : {"f"}, Format : {<< >>, <<"%d">>, <<"%f">>},
              Labels : {<< >>, <<[Header |-> "g", Format |-> << >>]>>}]]
SourceConfigs ==
    [Id : {"s1", "s2"}, Output : [Parser : {"csv", "htmlquery", "xml"}]]
AppConfigs ==
    [Monitors : UNION {[1..n -> MonitorConfigs] : n \in 0..MaxConfig},
     Sources : UNION {[1..n -> SourceConfigs] : n \in 0..MaxConfig}]

\* if m.c.Value.Format == "" { m.c.Value.Format = "%f" };
\* if m.c.Type == "" { m.c.Type = "gauge" }
WithDefaults(c) ==
    [c EXCEPT !.Value.Format = IF @ = << >> THEN <<"%f">> ELSE @,
              !.Type = IF @ = "" THEN "gauge" ELSE @]

\* the monitor built for one MonitorConfig: the gauge is registered under the
\* monitor's id with the label names of its value rule
NewMonitor(c) ==
    LET d == WithDefaults(c)
    IN IF d.Type = "gauge"
       THEN [c |-> d, metric |-> "gaugeMetric",
             gauge |-> <<[Name |-> d.Id, labelNames |-> labelNames(d.Value.Labels)]>>]
       ELSE [c |-> d, metric |-> Nil, gauge |-> << >>]

NewSource(c) ==
    [c |-> c, command |-> "shellCommand",
     parser |-> IF c.Output.Parser = "csv" THEN "csvParser"
                ELSE IF c.Output.Parser = "htmlquery" THEN "htmlqueryParser"
                ELSE Nil]

\* NewWatchService keeping a value format it was given empty
NewWatchService_NoFormatDefault(config) ==
    [monitors |-> [i \in 1..Len(config.Monitors) |->
                      [NewMonitor(config.Monitors[i]) EXCEPT
                          !.c.Value.Format = config.Monitors[i].Value.Format]],
     sources |-> [i \in 1..Len(config.Sources) |-> NewSource(config.Sources[i])]]

\* func NewWatchService(config AppConfig) *WatchService
NewWatchService(config) ==
    [monitors |-> [i \in 1..Len(config.Monitors) |-> NewMonitor(config.Monitors[i])],
     sources |-> [i \in 1..Len(config.Sources) |-> NewSource(config.Sources[i])]]

\* a call of NewWatchService on any configuration
InitNew ==
    /\ InitStart
    /\ command = [s \in Sources |-> TRUE]
    /\ vin \in {<<[fn |-> "new", config |-> cf]>> : cf \in AppConfigs}
    /\ vout = << >>

New ==
    /\ vin # << >>
    /\ vin[1].fn = "new"
    /\ vout = << >>
    /\ vout' = <<NewWatchService(vin[1].config)>>
    /\ UNCHANGED <<now, ctxErr, loopVars, mu, latest, command, vin>>
    /\ UNCHANGED <<cycleVars, dispVars, histVars>>

NextNew == New

SpecNew == InitNew /\ [][NextNew]_vars

\* the loop's own steps are taken when they can be (select picks a ready case
\* at random, sync.Mutex hands the lock over to a waiter), and a goroutine that
\* holds latest.mu releases it; nothing is assumed of the cycle, fetch and
\* dispatch goroutines otherwise
FairSpec ==
    /\ Spec
    /\ SF_vars(Return)
    /\ SF_vars(GateLock)
    /\ WF_vars(GateRead)
    /\ WF_vars(\E d \in 0..MaxTime : GateDecide(d))
    /\ \A c \in Cycles : WF_vars(DeferSet(c))

\* sync.Mutex hands the lock to a goroutine that has waited for it (starvation
\* mode), so a dispatch goroutine waiting in its deferred Lock gets it too
FairLockSpec ==
    /\ InitLong
    /\ [][Next]_vars
    /\ SF_vars(Return)
    /\ SF_vars(GateLock)
    /\ WF_vars(GateRead)
    /\ WF_vars(\E d \in 0..MaxTime : GateDecide(d))
    /\ \A c \in Cycles : SF_vars(DeferLock(c))
    /\ \A c \in Cycles : WF_vars(DeferSet(c))

\* every pull returns, a cycle goroutine whose fetches are done goes on to its
\* send, the runtime serves a sender that waits on sourcesData (select picks
\* among its ready cases at random), and the loop and the lock go on as in
\* FairLockSpec
FairCycleSpec ==
    /\ FairLockSpec
    /\ \A c \in Cycles, s \in Sources :
          WF_vars(\E exec \in ExecResults, parse \in ParseResults :
                     FetchDone(c, s, exec, parse))
    /\ \A c \in Cycles : WF_vars(CycleBegin(c))
    /\ \A c \in Cycles : WF_vars(CycleJoin(c))
    /\ \A c \in Cycles : SF_vars(Recv(c))

\* ------------------------------------------------------------------ claims
Decided == 1..Len(gateLog)
Sent(c) == cpc[c] \in {"send", "done"}
Failed(c) == {s \in Sources : fetch[c][s] = "done" /\ s \notin succ[c]}

\* C1: once the gate has decided Apply for a snapshot A, every snapshot B with
\* a capture timestamp not later than A's that the gate decides afterwards is
\* discarded and no monitor is pushed B's rows.
C1_OlderDiscardedAfterApply ==
    \A i, j \in Decided :
        (i < j /\ gateLog[i].apply
               /\ updated[gateLog[j].c] <= updated[gateLog[i].c])
            => (~gateLog[j].apply /\ pushed[gateLog[j].c] = {})

\* C2: a monitor that has been pushed from a snapshot with capture timestamp
\* ts is never afterwards pushed from a snapshot with a smaller one.
C2_MonitorNeverPushedOlder ==
    \A m \in Monitors :
        prevPush[m] # 0 => updated[lastPush[m]] >= updated[prevPush[m]]

\* C3: a snapshot the gate discards is discarded in full: no dispatch task is
\* started for it, no monitor is pushed from it, latest.t is not written by it.
C3_DiscardInFull ==
    \A k \in Decided :
        ~gateLog[k].apply =>
            /\ dpc[gateLog[k].c] = "none"
            /\ pushed[gateLog[k].c] = {}
            /\ writer # gateLog[k].c

C3_Witness ==
    \E k \in Decided : ~gateLog[k].apply /\ latest # ZeroTime

\* C4: the source ids of a cycle's sent snapshot are exactly the sources whose
\* pull succeeded in the cycle (N-1 entries when one of N failed), and no
\* monitor whose SourceId is a failed source is pushed from it.
C4_SnapshotHoldsSucceeded ==
    \A c \in Cycles :
        Sent(c) =>
            /\ DOMAIN data[c] = succ[c]
            /\ Cardinality(Failed(c)) = 1
                   => Cardinality(DOMAIN data[c]) = NumSources - 1
            /\ \A m \in pushed[c] : SourceIdOf(m) \notin Failed(c)

C4_Witness ==
    \E c \in Cycles :
        /\ dpc[c] = "done"
        /\ Cardinality(Failed(c)) = 1
        /\ pushed[c] # {}

\* C5: a failed pull of one source does not keep the fragments of the other
\* sources of the cycle from being stored, does not keep the cycle from
\* passing its barrier to send its snapshot, and does not end the loop.
C5_FailureContained ==
    \A c \in Cycles :
        Failed(c) # {} =>
            /\ succ[c] \subseteq DOMAIN data[c]
            /\ wg[c] = Cardinality({s \in Sources : fetch[c][s] = "running"})
            /\ (\A s \in Sources : fetch[c][s] = "done")
                   => (Sent(c) \/ (cpc[c] = "wait" /\ wg[c] = 0))
            /\ lpc = "returned" => ctxErr # NoErr

C5_Witness ==
    \E c \in Cycles :
        /\ Failed(c) # {}
        /\ succ[c] # {}
        /\ cpc[c] = "done"
        /\ lpc = "select"
        /\ c < nticks

\* C6: a snapshot is sent only after every pull of its cycle has returned, and
\* from then on neither its fragments nor its timestamp change.
C6_SentAfterAllPullsAndFrozen ==
    /\ [](\A c \in Cycles : Sent(c) => \A s \in Sources : fetch[c][s] = "done")
    /\ [][\A c \in Cycles :
              Sent(c) => (data'[c] = data[c] /\ updated'[c] = updated[c])]_vars

C6_Witness ==
    \E c \in Cycles : dpc[c] = "done" /\ pushed[c] # {} /\ succ[c] = Sources

\* C7: at every moment at most one pull is in flight for any given source.
C7_AtMostOnePullPerSource ==
    \A s \in Sources :
        Cardinality({c \in Cycles : fetch[c][s] = "running"}) <= 1

\* C8: once the context is cancelled, Start eventually returns the context's
\* error, whatever is still in flight and without waiting for it.
C8_CancelLeadsToReturn ==
    (ctxErr # NoErr) ~> (lpc = "returned" /\ ret = ctxErr)

C8_Witness ==
    /\ lpc = "returned"
    /\ ret = ctxErr
    /\ \E c \in Cycles, s \in Sources : fetch[c][s] = "running"
    /\ \E c \in Cycles : dpc[c] = "run"

\* C9: pull on a source with no command attached returns the error
\* "source: undefined command" and no records, and calls neither the command
\* nor the parser; the source contributes no fragment.
C9_UndefinedCommand ==
    \A s \in Sources :
        (~command[s] /\ lastPull[s] # << >>) =>
            /\ lastPull[s][1].out.err = "source: undefined command"
            /\ lastPull[s][1].out.records = << >>
            /\ lastPull[s][1].parse = << >>
            /\ lastPull[s][1].exec = << >>
            /\ \A c \in Cycles : s \notin DOMAIN data[c]

C9_Witness ==
    \E s \in Sources, c \in Cycles :
        ~command[s] /\ lastPull[s] # << >> /\ cpc[c] = "done"

\* C10: with a command attached, pull returns Execute's error and no records
\* without calling the parser when Execute fails, Parse's error and no records
\* when Parse fails, and Parse's records with no error only when both succeed.
C10_PullResult ==
    \A s \in Sources :
        (command[s] /\ lastPull[s] # << >>) =>
            LET p == lastPull[s][1] IN
            /\ p.exec # << >>
            /\ p.exec[1].err # NoErr =>
                   (p.out.err = p.exec[1].err /\ p.out.records = << >> /\ p.parse = << >>)
            /\ p.exec[1].err = NoErr =>
                   /\ p.parse # << >>
                   /\ p.parse[1].err # NoErr =>
                          (p.out.err = p.parse[1].err /\ p.out.records = << >>)
                   /\ p.parse[1].err = NoErr =>
                          (p.out.err = NoErr /\ p.out.records = <<p.parse[1].res>>)
            /\ p.out.err = NoErr =>
                   (p.exec[1].err = NoErr /\ p.parse # << >> /\ p.parse[1].err = NoErr)

C10_Witness ==
    \E s1, s2 \in Sources :
        /\ command[s1] /\ lastPull[s1] # << >>
        /\ lastPull[s1][1].exec[1].err = NoErr
        /\ lastPull[s1][1].parse[1].err # NoErr
        /\ command[s2] /\ lastPull[s2] # << >>
        /\ lastPull[s2][1].out.err = NoErr

\* the dispatch goroutine of cycle c has left its range over ws.monitors
Ranged(c) == dpc[c] \in {"defer", "done"}
\* the dispatch goroutine of cycle c is inside m.push
InPush(c, m) == dpc[c] = "run" /\ di[c] = m /\ dk[c] >= 1

\* C11: when a snapshot is applied, a monitor whose SourceId is absent from
\* it, or whose RecordId is absent from that source's records, is not pushed
\* and none of its gauge values comes from that cycle, while every monitor
\* whose source and record are present is pushed.
C11_AbsentMonitorSkipped ==
    \A c \in Cycles, m \in Monitors :
        /\ ~HasRows(c, m) =>
               (m \notin pushed[c] /\ \A l \in Labels : gauge[m][l] # c)
        /\ (Ranged(c) /\ HasRows(c, m)) => m \in pushed[c]

C11_Witness ==
    \E c \in Cycles, m1, m2 \in Monitors :
        /\ dpc[c] = "done"
        /\ SourceIdOf(m1) \in DOMAIN data[c]
        /\ ~HasRows(c, m1)
        /\ \E l \in Labels : gauge[m1][l] # 0
        /\ m2 \in pushed[c]
        /\ \E l \in Labels : gauge[m2][l] = c

\* C12: a push call on rows performs exactly Len(rows) writes, the i-th being
\* the metric of rows[i]; while the call runs it has written the rows before
\* the one it is at, in order.
C12_PushWritesRowsInOrder ==
    \A c \in Cycles :
        wlog[c].m # 0 =>
            LET m == wlog[c].m
                rows == RowsOf(c, m)
                n == IF InPush(c, m) THEN dk[c] - 1 ELSE Len(rows)
            IN wlog[c].w = [i \in 1..n |-> MetricOf(c, rows[i])]

C12_Witness ==
    \E c \in Cycles :
        /\ wlog[c].m # 0
        /\ ~InPush(c, wlog[c].m)
        /\ Len(wlog[c].w) = 2
        /\ wlog[c].w[1] # wlog[c].w[2]

\* C13: record.value never fails: a missing target field or a field value
\* that the scan format does not match gives the value 0, and a label whose
\* field is missing gives the empty string, whatever the formats.
C13_ScanFailureYieldsZero ==
    vout # << >> =>
        LET r == vin[1].row
            c == vin[1].rule
        IN /\ (\/ c.Header \notin DOMAIN r
               \/ Sscanf(r[c.Header], c.Format, "float", 0).err # NoErr)
                  => vout[1].value = 0
           /\ \A i \in 1..Len(c.Labels) :
                  c.Labels[i].Header \notin DOMAIN r => vout[1].labels[i] = << >>

\* C14: record.value returns one label per label rule, the i-th derived from
\* the i-th rule (the raw field value when the rule has no format, the empty
\* string when the field is missing), so there are as many labels as the
\* gauge has label names.
C14_OneLabelPerRule ==
    vout # << >> =>
        LET r == vin[1].row
            c == vin[1].rule
            ll == vout[1].labels
        IN /\ Len(ll) = Len(c.Labels)
           /\ Len(ll) = Len(labelNames(c.Labels))
           /\ \A i \in 1..Len(c.Labels) :
                  LET k == c.Labels[i] IN
                  /\ k.Header \notin DOMAIN r => ll[i] = << >>
                  /\ (k.Header \in DOMAIN r /\ k.Format = << >>) => ll[i] = r[k.Header]
                  /\ (k.Header \in DOMAIN r /\ k.Format # << >>) =>
                         ll[i] = Sscanf(r[k.Header], k.Format, "string", << >>).val

C14_Witness ==
    /\ vout # << >>
    /\ Len(vin[1].rule.Labels) = 2
    /\ vin[1].rule.Labels[1].Header \notin DOMAIN vin[1].row
    /\ vin[1].rule.Labels[2].Format = << >>
    /\ vout[1].labels[2] = <<"1", " ", "M">>
    /\ vout[1].labels[1] = << >>

\* C15: a candidate snapshot whose capture timestamp equals the last-applied
\* timestamp the gate has read is discarded: the decision logs a discard and
\* starts no dispatch for it.
C15_SameAgeDiscarded ==
    [][(lpc = "cmp" /\ t # ZeroTime /\ t = updated[rcv] /\ lpc' = "select")
          => (/\ Len(gateLog') = Len(gateLog) + 1
              /\ ~gateLog'[Len(gateLog')].apply
              /\ dpc'[rcv] = "none")]_vars

\* C16: a candidate snapshot whose capture timestamp is strictly newer than
\* the last-applied timestamp the gate has read is applied: the decision logs
\* an apply and starts a dispatch for it.
C16_NewerApplied ==
    [][(lpc = "cmp" /\ updated[rcv] > t /\ lpc' = "select")
          => (/\ Len(gateLog') = Len(gateLog) + 1
              /\ gateLog'[Len(gateLog')].apply
              /\ dpc'[rcv] = "run")]_vars

\* C17: once the gate has decided Apply for a snapshot, last-applied holds
\* that snapshot's capture timestamp by the time the gate decides on the next
\* received snapshot: the value the gate has read for its comparison is the
\* capture timestamp of the snapshot applied last.
LastApplied ==
    LET idx == {i \in Decided : gateLog[i].apply}
    IN IF idx = {} THEN 0
       ELSE gateLog[CHOOSE i \in idx : \A j \in idx : j <= i].c

C17_NextDecisionSeesApplied ==
    (lpc = "cmp" /\ LastApplied # 0) => t = updated[LastApplied]

\* C18: at most one task holds the lock of last-applied at a time, the task
\* that holds it executes no monitor push and no source pull while it does
\* (the loop is between its Lock and Unlock, a dispatch task is past all its
\* pushes), every acquisition is followed by a release, and neither the loop
\* nor a dispatch task waits for the lock forever.
InCritical(c) == dpc[c] = "defer"
AtDeferLock(c) == dpc[c] = "run" /\ di[c] > NumMonitors

C19_OnePushPerMonitor ==
    \A m \in Monitors : Cardinality({c \in Cycles : InPush(c, m)}) <= 1

\* C20: the capture timestamp of a snapshot is taken before any pull of its
\* cycle is started and, once taken, is never changed: not while the fetches
\* run, not at the join and not at the send, so the timestamp sent is the one
\* captured at the start of the cycle.
C20_TimestampFromCycleStart ==
    /\ [](\A c \in Cycles :
             (\E s \in Sources : fetch[c][s] # "none")
                 => (cpc[c] \notin {"none", "start"} /\ updated[c] # ZeroTime))
    /\ [][\A c \in Cycles :
             cpc[c] \notin {"none", "start"} => updated'[c] = updated[c]]_vars

C20_Witness ==
    \E c \in Cycles :
        /\ cpc[c] = "done"
        /\ rcv = c
        /\ \A s \in Sources : fetch[c][s] = "done"
        /\ updated[c] < now

\* C21: capture timestamps follow tick order: when the loop handled the tick
\* of cycle i before the tick of cycle j, the snapshot of cycle i carries a
\* capture timestamp not later than that of cycle j.
Captured(c) == cpc[c] \notin {"none", "start"}

C21_TimestampsFollowTicks ==
    \A i, j \in Cycles :
        (i < j /\ Captured(i) /\ Captured(j)) => updated[i] <= updated[j]

\* C22: htmlqueryParser.Parse fails with "invalid parser option 'format'" when
\* a record spec's format option is not "table" and with "invalid parser
\* option 'path'" when format is "table" but path is missing, the format check
\* coming first; on either error it returns no records at all, also when
\* earlier record specs of the list were valid.
BadSpec(r) == Option(r, "format") # "table" \/ "path" \notin DOMAIN r.ParserOptions
ErrOf(r) == IF Option(r, "format") # "table" THEN ErrFormat ELSE ErrPath

C22_OptionErrors ==
    (vout # << >> /\ vin[1].fn = "html") =>
        LET specs == vin[1].specs
            bad == {i \in 1..Len(specs) : BadSpec(specs[i])}
            first == CHOOSE i \in bad : \A j \in bad : i <= j
        IN bad # {} =>
               /\ vout[1].err = ErrOf(specs[first])
               /\ vout[1].errOptions = <<specs[first].ParserOptions>>
               /\ vout[1].records = << >>
               /\ vout[1].panic = NoPanic

\* C23: a delimited-table parse in which some row has fewer fields than the
\* header of some record spec has positions ends in an error returned by
\* Parse, never in a crash.
ShortRow(specs, lines) ==
    \E i \in 1..Len(specs), k \in 1..Len(lines) :
        lines[k] # << >> /\ Len(SplitLine(lines[k], << >>)) < Len(specs[i].Header)

C23_ShortRowIsError ==
    (vout # << >> /\ vin[1].fn = "csv" /\ ShortRow(vin[1].specs, vin[1].lines))
        => (vout[1].err # NoErr /\ vout[1].panic = NoPanic)

\* C24: table.zip on a table with n rows, each with at least len(header)
\* cells, returns the rows in source order, row i mapping header[j] to cell j;
\* n rows when skipFirstLine is false, the last n-1 rows when it is true.
C24_ZipRowsInOrder ==
    (vout # << >> /\ vin[1].fn = "zip"
        /\ \A i \in 1..Len(vin[1].t) : Len(vin[1].t[i]) >= Len(vin[1].header))
    => LET tb == vin[1].t
           h == vin[1].header
           off == IF vin[1].skipFirstLine THEN 1 ELSE 0
       IN /\ vout[1].panic = NoPanic
          /\ Len(vout[1].res) = IF Len(tb) >= off THEN Len(tb) - off ELSE 0
          /\ \A i \in 1..Len(vout[1].res) :
                /\ DOMAIN vout[1].res[i] = {h[j] : j \in 1..Len(h)}
                /\ \A j \in 1..Len(h) : vout[1].res[i][h[j]] = tb[i + off][j]

\* C25: a record spec with an empty header never makes a parse fail: for
\* every table and either value of the flag, zip returns rows that are all
\* empty mappings.
C25_EmptyHeaderNeverFails ==
    (vout # << >> /\ vin[1].fn = "zip" /\ vin[1].header = << >>)
    => /\ vout[1].panic = NoPanic
       /\ \A i \in 1..Len(vout[1].res) : DOMAIN vout[1].res[i] = {}

C27_NoRetry ==
    \A c \in Cycles :
        /\ \A s \in Sources :
              /\ calls[c][s].pull <= 1
              /\ calls[c][s].exec <= 1
              /\ fetch[c][s] = "done" =>
                    (/\ calls[c][s].pull = 1
                     /\ calls[c][s].exec = IF command[s] THEN 1 ELSE 0)
        /\ (\A s \in Sources : fetch[c][s] = "done") =>
              (DOMAIN data[c] = succ[c] /\ (cpc[c] = "wait" => ENABLED CycleJoin(c)))

C27_Witness ==
    \E c \in Cycles, s1, s2 \in Sources :
        /\ Sent(c)
        /\ command[s1]
        /\ s1 \in Failed(c)
        /\ calls[c][s1].exec = 1
        /\ s2 \in succ[c]
        /\ DOMAIN data[c] = {s2}

\* C28: each tick starts exactly one cycle and each cycle sends at most one
\* snapshot: the cycles started are as many as the ticks handled, the
\* snapshots received by the loop are never more than that and a snapshot
\* received is not sent again; a cycle starts exactly one pull per source.
Started == {c \in Cycles : cpc[c] # "none"}
Received == {c \in Cycles : cpc[c] = "done"}

C28_OneCyclePerTick ==
    /\ [](/\ Cardinality(Started) = nticks
          /\ Cardinality(Received) <= nticks
          /\ Len(gateLog) <= Cardinality(Received)
          /\ \A c \in Cycles, s \in Sources :
                calls[c][s].pull = IF Captured(c) THEN 1 ELSE 0)
    /\ [][\A c \in Cycles : c \in Received => cpc'[c] = "done"]_vars

C28_Witness ==
    /\ nticks = MaxCycles
    /\ Received = Cycles
    /\ Len(gateLog) = MaxCycles

\* C29: the scheduling loop never waits for a dispatch task: while a dispatch
\* task is pushing rows, a due tick is handled and a snapshot that is ready is
\* received, so the pulls of a new cycle are in flight while the dispatch task
\* of an earlier applied snapshot is still pushing.
Pushing == {c \in Cycles : dpc[c] = "run"}

C29_LoopNeverWaitsForDispatch ==
    (Pushing # {} /\ lpc = "select") =>
        /\ (now >= timer /\ nticks < MaxCycles) => ENABLED Tick
        /\ \A c \in Cycles : cpc[c] = "send" => ENABLED Recv(c)

C29_Witness ==
    \E c1, c2 \in Cycles, m \in Monitors, s \in Sources :
        /\ c1 < c2
        /\ InPush(c1, m)
        /\ fetch[c2][s] = "running"
        /\ lpc = "select"

\* C30: when a cycle B started by a later tick has joined before a cycle A
\* started by an earlier tick, and last-applied already holds B's capture
\* timestamp when the gate reads it for A's snapshot, A's snapshot is
\* discarded: the decision logs a discard and starts no dispatch for A.
C30_EarlierCycleDiscarded ==
    [][(/\ lpc = "cmp"
        /\ lpc' = "select"
        /\ \E B \in Cycles : B > rcv /\ dpc[B] = "done" /\ t = updated[B])
          => (/\ Len(gateLog') = Len(gateLog) + 1
              /\ ~gateLog'[Len(gateLog')].apply
              /\ dpc'[rcv] = "none")]_vars

\* C31: ticks fire at a fixed period: handling a received snapshot does not
\* restart or postpone the timer of the next tick, so the time at which the
\* next tick is due is the same after the gate's decision as before the
\* snapshot was received.
C31_ReceiveKeepsTimer ==
    [][(lpc = "cmp" /\ lpc' = "select") => timer' = timer]_vars

\* C32: the last-applied timestamp never decreases: each write to it stores a
\* capture timestamp not older than the value it replaces.
C32_LatestNeverDecreases ==
    [][latest' >= latest]_vars

\* C33: the first snapshot the gate receives after Start begins is always
\* applied, last-applied starting at the zero time, which is older than any
\* capture timestamp.
C33_FirstSnapshotApplied ==
    /\ (lpc \in {"lock", "locked"} /\ gateLog = << >>) => latest = ZeroTime
    /\ (lpc = "cmp" /\ gateLog = << >>) =>
           (t = ZeroTime /\ \A c \in Cycles : Captured(c) => updated[c] > t)
    /\ gateLog # << >> =>
           (gateLog[1].apply /\ dpc[gateLog[1].c] # "none")

C33_Witness ==
    /\ Len(gateLog) = 1
    /\ gateLog[1].apply
    /\ dpc[gateLog[1].c] = "run"
    /\ now > updated[gateLog[1].c]

\* C34: every cycle task eventually terminates, also one that is still
\* fetching or waiting to hand over its snapshot when Start returns: no cycle
\* task is left in its send with nothing that will ever receive from the
\* channel, that is, with the loop returned.
C34_NoCycleBlockedInSend ==
    \A c \in Cycles : cpc[c] = "send" => lpc # "returned"

\* C35: as long as the context is not cancelled and every pull returns, the
\* snapshot of each cycle is eventually received by the loop and decided,
\* applied or discarded, however many cycles are in flight.
DecidedCycle(c) == \E i \in Decided : gateLog[i].c = c

C35_EverySnapshotDecided ==
    \A c \in Cycles :
        (cpc[c] # "none") ~> (DecidedCycle(c) \/ ctxErr # NoErr)

C35_Witness ==
    /\ ctxErr = NoErr
    /\ \A c \in Cycles : DecidedCycle(c)
    /\ \E i, j \in Decided : gateLog[i].apply /\ ~gateLog[j].apply

\* C36: parsing an output that yields zero rows for a record spec marked
\* first-row-is-header (an empty command output, a table body without cell
\* rows) produces an empty row sequence for that record and does not crash.
NoRows(in) ==
    IF in.fn = "csv"
    THEN \A k \in 1..Len(in.lines) : in.lines[k] = << >>
    ELSE /\ in.fn = "html"
         /\ \A i \in 1..Len(in.specs) : ~BadSpec(in.specs[i])
         /\ \A pa \in Paths : \A k \in 1..Len(in.doc[pa]) : in.doc[pa][k] = << >>

C36_ZeroRowsWithHeaderFlag ==
    (/\ vout # << >>
     /\ vin[1].fn \in {"csv", "html"}
     /\ NoRows(vin[1])
     /\ \E i \in 1..Len(vin[1].specs) : vin[1].specs[i].FirstLineIsHeader)
    => /\ vout[1].panic = NoPanic
       /\ vout[1].err = NoErr
       /\ \A i \in 1..Len(vin[1].specs) :
              vout[1].records[1][vin[1].specs[i].Id] = << >>

\* C37: every Source and Monitor built by NewWatchService is fully wired for
\* any configuration: each source has a parser and each monitor a metric sink,
\* so pull and push never go through a missing collaborator.
C37_FullyWired ==
    (vout # << >> /\ vin[1].fn = "new") =>
        /\ \A i \in 1..Len(vout[1].sources) :
              vout[1].sources[i].parser # Nil /\ vout[1].sources[i].command # Nil
        /\ \A i \in 1..Len(vout[1].monitors) : vout[1].monitors[i].metric # Nil

\* C38: a gauge entry is never removed: once a label set has been written for
\* a monitor it keeps its last written value, changing only by a write of
\* that very label set, also when a later applied snapshot skips the monitor.
WrittenNow(m, l) ==
    \E c \in Cycles :
        /\ wlog'[c].m = m
        /\ Len(wlog'[c].w) = Len(wlog[c].w) + 1
        /\ wlog'[c].w[Len(wlog'[c].w)].labels = l
        /\ gauge'[m][l] = wlog'[c].w[Len(wlog'[c].w)].value

C38_GaugeEntryKept ==
    [][\A m \in Monitors, l \in Labels :
          /\ gauge[m][l] # 0 => gauge'[m][l] # 0
          /\ gauge'[m][l] # gauge[m][l] => WrittenNow(m, l)]_vars

C38_Witness ==
    \E m \in Monitors, l \in Labels, i, j \in Decided :
        /\ i < j
        /\ gateLog[i].apply /\ gateLog[j].apply
        /\ gauge[m][l] = gateLog[i].c
        /\ dpc[gateLog[j].c] = "done"
        /\ ~HasRows(gateLog[j].c, m)

\* C39: Monitor.push drops the error of Metric.Write: a failed write stops
\* neither the writes of the remaining rows of that push, nor the pushes to
\* the remaining monitors, nor the update of latest.t that ends the dispatch.
DispatchStep(c) ==
    \/ DispatchMonitor(c)
    \/ PushRowWith(WriteResults, c)
    \/ DeferLock(c)
    \/ DeferSet(c)

C39_WriteErrorIgnored ==
    \A c \in Cycles :
        /\ (wlog[c].m # 0 /\ ~InPush(c, wlog[c].m)) =>
              Len(wlog[c].w) = Len(RowsOf(c, wlog[c].m))
        /\ Ranged(c) => pushed[c] = {m \in Monitors : HasRows(c, m)}
        /\ (dpc[c] \in {"run", "defer"} /\ werr[c] # {}) =>
              (ENABLED DispatchStep(c) \/ (di[c] > NumMonitors /\ mu # << >>))
        /\ dpc[c] = "done" =>
              /\ writer # 0
              /\ dpc[writer] = "done"
              /\ latest = updated[writer]

C39_Witness ==
    \E c \in Cycles :
        /\ dpc[c] = "done"
        /\ writer = c
        /\ latest = updated[c]
        /\ <<1, 1>> \in werr[c]
        /\ <<1, 2>> \notin werr[c]
        /\ gauge[1]["b"] = c
        /\ gauge[1]["a"] # c
        /\ pushed[c] = Monitors
        /\ wlog[c].m = 2
        /\ Len(wlog[c].w) = 2

====
